---- MODULE Spec2Model ----
(***************************************************************************)
(* The two-stack zipper list of lists/src/silly1.rs.                       *)
(*                                                                         *)
(* The heap is modelled explicitly: every Box<Node<T>> is a node identity  *)
(* with an elem and a next link, a Link<T> is a node identity or Nil, and   *)
(* the two Stacks of a List are their head links.  go_left / go_right are   *)
(* two steps (pop_node, then push_node) with the node in transit held in    *)
(* the closure parameter; Stack::drop is one step per loop iteration.       *)
(* Spec is the specification of this List.                                 *)
(*                                                                         *)
(* The borrowed cons list of lists/src/silly2.rs is modelled beside it:    *)
(* the List values live in the frames of the nested List::push calls, a    *)
(* reference to a List is the index of its frame, and an Iter walks the    *)
(* prev references.  SpecCons is the specification of that list.           *)
(***************************************************************************)
EXTENDS Integers, Sequences, FiniteSets, TLC

\* Bounds of the model: how many Nodes can be live, and the element values.
MaxNodes == 3
MaxElem == 1

\* silly2: the nesting of List::push calls, and the next() calls made on an
\* iterator beyond the longest list.
MaxDepth == 3
MaxExtra == 2

Nodes == 1..MaxNodes
Elems == 0..MaxElem

\* Link<T> = Option<Box<Node<T>>>: the absent link.
Nil == 0

\* Option<T> results.
None == <<>>
Some(x) == <<x>>

\* The result of a function returning ().
Unit == "unit"

VARIABLES
    heap,       \* live Nodes: node identity -> [elem, next]
    left,       \* List.left.head
    right,      \* List.right.head
    pc,         \* "idle", "go_left", "go_right", "drop_left", "drop_right", "dropped"
    node,       \* the Node in transit inside go_left / go_right (closure parameter)
    cur_link,   \* Stack::drop's local cur_link
    op,         \* history: the operation called last
    arg,        \* history: its argument
    ret,        \* history: what it returned
    pre,        \* history: heap, left and right when it was called (and, for a
                \*          pop, wr when it was called)
    wr,         \* history: per side, the value last written through peek_mut
                \*          with no operation changing that side since
    iters,      \* history: loop iterations of Stack::drop, per stack
    released,   \* history: the Nodes released during teardown, in order
    depth,      \* history: deepest nesting of Node destructors during teardown
    run,        \* history: the current run of pushes and then pops on one side
    net,        \* history: push calls made minus pop calls that returned Some
    streak,     \* history: the current loop of go_left (or of go_right) calls
    back,       \* history: in a go_* call made right after the opposite go_*
                \*          returned true, the List before that opposite call
    frames,     \* silly2: the List values of the List::push calls under way,
                \*         outermost first, each [data, prev]
    vals,       \* silly2: the Iter alive in the innermost callback, if any
    vals_on,    \* silly2 history: the list vals was made on, and the depth of
                \*         the callback that made it
    yielded,    \* silly2 history: what the next() calls on vals returned
    cop,        \* silly2 history: the operation done last
    carg,       \* silly2 history: the arguments of the List::push called last
    cret        \* silly2 history: what the callback that returned last
                \*         returned, and what its List::push returned

vars == <<heap, left, right, pc, node, cur_link, op, arg, ret, pre, wr,
          iters, released, depth, run, net, streak, back,
          frames, vals, vals_on, yielded, cop, carg, cret>>

list_vars == <<heap, left, right, pc, node, cur_link, op, arg, ret, pre, wr,
               iters, released, depth, run, net, streak, back>>

cons_vars == <<frames, vals, vals_on, yielded, cop, carg, cret>>

\* The history of the call in progress or last returned.
call == <<op, arg, ret, pre>>

St == [heap |-> heap, left |-> left, right |-> right]

----------------------------------------------------------------------------
(* Chains *)

\* The Nodes reached from a link by following next, head first.  The walk
\* stops at an absent link, at a link to a released Node, and after fuel
\* steps (so that it is defined on a cyclic heap too).
RECURSIVE ChainFrom(_, _, _)
ChainFrom(h, link, fuel) ==
    IF link = Nil \/ link \notin DOMAIN h \/ fuel = 0
    THEN <<>>
    ELSE <<link>> \o ChainFrom(h, h[link].next, fuel - 1)

ChainNodes(h, link) == ChainFrom(h, link, Cardinality(DOMAIN h) + 1)

\* The elements of a stack, head first.
Chain(h, link) ==
    LET ns == ChainNodes(h, link) IN [i \in 1..Len(ns) |-> h[ns[i]].elem]

Range(s) == {s[i] : i \in 1..Len(s)}

Reverse(s) == [i \in 1..Len(s) |-> s[Len(s) + 1 - i]]

----------------------------------------------------------------------------
(* Box and Node *)

\* Box::new(Node { elem, next: None }) at the fresh address n.
Box_new(h, n, e) ==
    [m \in DOMAIN h \cup {n} |-> IF m = n THEN [elem |-> e, next |-> Nil] ELSE h[m]]

\* Dropping a Box<Node<T>>: the compiler's drop glue releases the Node and,
\* nested inside it, whatever its next link still owns.  freed lists the
\* Nodes released, depth is the nesting of destructor frames.
drop_glue(h, n) ==
    LET chain == ChainNodes(h, n)
    IN  [heap  |-> [m \in DOMAIN h \ Range(chain) |-> h[m]],
         freed |-> chain,
         depth |-> Len(chain)]

----------------------------------------------------------------------------
(* Stack<T>, as functions of the heap and the stack's head link *)

Stack_new == Nil

\* Mutant: the previous head is linked back to the pushed Node as well.
push_node_back_linked(h, head, n) ==
    [heap |-> IF head = Nil
              THEN [h EXCEPT ![n].next = head]
              ELSE [h EXCEPT ![n].next = head, ![head].next = n],
     head |-> n]

\* Mutant: the previous head is not linked below the pushed Node.
push_node_unlinked(h, head, n) ==
    [heap |-> [h EXCEPT ![n].next = Nil],
     head |-> n]

push_node(h, head, n) ==
    [heap |-> [h EXCEPT ![n].next = head],
     head |-> n]

push(h, head, e, n) == push_node(Box_new(h, n, e), head, n)

\* Mutant: the popped Node keeps its link to the rest of the chain.
pop_node_attached(h, head) ==
    IF head = Nil
    THEN [heap |-> h, head |-> Nil, node |-> Nil]
    ELSE [heap |-> h,
          head |-> h[head].next,
          node |-> head]

\* Mutant: the second Node is unlinked together with the head.
pop_node_skips(h, head) ==
    IF head = Nil
    THEN [heap |-> h, head |-> Nil, node |-> Nil]
    ELSE [heap |-> [h EXCEPT ![head].next = Nil],
          head |-> IF h[head].next = Nil THEN Nil ELSE h[h[head].next].next,
          node |-> head]

pop_node(h, head) ==
    IF head = Nil
    THEN [heap |-> h, head |-> Nil, node |-> Nil]
    ELSE [heap |-> [h EXCEPT ![head].next = Nil],
          head |-> h[head].next,
          node |-> head]

\* Mutant: pop takes the element of the Node below the head.
pop_below(h, head) ==
    LET r == pop_node(h, head)
    IN  IF r.node = Nil
        THEN [heap |-> r.heap, head |-> r.head, ret |-> None]
        ELSE [heap |-> drop_glue(r.heap, r.node).heap,
              head |-> r.head,
              ret  |-> Some(r.heap[IF r.head = Nil THEN r.node ELSE r.head].elem)]

\* Mutant: pop moves the element out and leaks the Node.
pop_leaks(h, head) ==
    LET r == pop_node(h, head)
    IN  IF r.node = Nil
        THEN [heap |-> r.heap, head |-> r.head, ret |-> None]
        ELSE [heap |-> r.heap,
              head |-> r.head,
              ret  |-> Some(r.heap[r.node].elem)]

pop(h, head) ==
    LET r == pop_node(h, head)
    IN  IF r.node = Nil
        THEN [heap |-> r.heap, head |-> r.head, ret |-> None]
        ELSE [heap |-> drop_glue(r.heap, r.node).heap,
              head |-> r.head,
              ret  |-> Some(r.heap[r.node].elem)]

\* Mutant: peek looks below the head when there is something below it.
peek_below(h, head) ==
    IF head = Nil THEN None
    ELSE IF h[head].next = Nil THEN Some(h[head].elem)
    ELSE Some(h[h[head].next].elem)

peek(h, head) == IF head = Nil THEN None ELSE Some(h[head].elem)

\* peek_mut returns the place of the head's elem: the Node that holds it.
peek_mut(h, head) == IF head = Nil THEN None ELSE Some(head)

\* The caller's write through the reference peek_mut returned.
\* Mutant: the write is lost.
write_lost(h, place, v) == h

write(h, place, v) ==
    IF place = None THEN h ELSE [h EXCEPT ![place[1]].elem = v]

\* One iteration of the loop of Stack::drop: detach the rest of the chain
\* from the Node, then release the Node at the end of the loop body.
\* Mutant: the Node is released with the rest of the chain still attached.
drop_iter_recursive(h, cur) ==
    LET d == drop_glue(h, cur)
    IN  [heap |-> d.heap, cur_link |-> Nil, freed |-> d.freed, depth |-> d.depth]

drop_iter(h, cur) ==
    LET rest == h[cur].next
        d    == drop_glue([h EXCEPT ![cur].next = Nil], cur)
    IN  [heap |-> d.heap, cur_link |-> rest, freed |-> d.freed, depth |-> d.depth]

----------------------------------------------------------------------------
(* List<T> *)

\* List::new()
List_new == [heap |-> <<>>, left |-> Stack_new, right |-> Stack_new]

\* The List methods as functions of st = [heap, left, right].
push_left(st, e, n) ==
    LET r == push(st.heap, st.left, e, n)
    IN  [heap |-> r.heap, left |-> r.head, right |-> st.right]

\* Mutant: push_right delegates to the left stack.
push_right_of_left(st, e, n) ==
    LET r == push(st.heap, st.left, e, n)
    IN  [heap |-> r.heap, left |-> r.head, right |-> st.right]

push_right(st, e, n) ==
    LET r == push(st.heap, st.right, e, n)
    IN  [heap |-> r.heap, left |-> st.left, right |-> r.head]

\* Mutant: pop_left delegates to the right stack.
pop_left_of_right(st) ==
    LET r == pop(st.heap, st.right)
    IN  [st  |-> [heap |-> r.heap, left |-> st.left, right |-> r.head],
         ret |-> r.ret]

pop_left(st) ==
    LET r == pop(st.heap, st.left)
    IN  [st  |-> [heap |-> r.heap, left |-> r.head, right |-> st.right],
         ret |-> r.ret]

\* Mutant: pop_right delegates to the left stack.
pop_right_of_left(st) ==
    LET r == pop(st.heap, st.left)
    IN  [st  |-> [heap |-> r.heap, left |-> r.head, right |-> st.right],
         ret |-> r.ret]

pop_right(st) ==
    LET r == pop(st.heap, st.right)
    IN  [st  |-> [heap |-> r.heap, left |-> st.left, right |-> r.head],
         ret |-> r.ret]

peek_left(st) == peek(st.heap, st.left)
peek_right(st) == peek(st.heap, st.right)
peek_left_mut(st) == peek_mut(st.heap, st.left)
peek_right_mut(st) == peek_mut(st.heap, st.right)

\* Option::is_some of the Option<()> that pop_node().map(..) yields, given
\* the Node pop_node returned (Nil for None).
\* Mutant: is_none in the place of is_some.
is_none(n) == n = Nil

\* Mutant: the result is Some whatever pop_node returned.
is_some_always(n) == TRUE

is_some(n) == n # Nil

\* go_left as one function: pop_node on left, push_node of that Node on right.
go_left(st) ==
    LET p == pop_node(st.heap, st.left)
    IN  IF p.node = Nil
        THEN [st  |-> [heap |-> p.heap, left |-> p.head, right |-> st.right],
              ret |-> is_some(p.node)]
        ELSE LET q == push_node(p.heap, st.right, p.node)
             IN  [st  |-> [heap |-> q.heap, left |-> p.head, right |-> q.head],
                  ret |-> is_some(p.node)]

go_right(st) ==
    LET p == pop_node(st.heap, st.right)
    IN  IF p.node = Nil
        THEN [st  |-> [heap |-> p.heap, left |-> st.left, right |-> p.head],
              ret |-> is_some(p.node)]
        ELSE LET q == push_node(p.heap, st.left, p.node)
             IN  [st  |-> [heap |-> q.heap, left |-> q.head, right |-> p.head],
                  ret |-> is_some(p.node)]

----------------------------------------------------------------------------
(* History *)

NoWr == [left |-> None, right |-> None]

NoPre == [heap |-> <<>>, left |-> Nil, right |-> Nil, wr |-> NoWr]

\* The operations that change (or may change) the left stack, and the right.
ChangesLeft == {"push_left", "pop_left", "go_left", "go_right", "drop"}
ChangesRight == {"push_right", "pop_right", "go_left", "go_right", "drop"}

WrAfter(o, a) ==
    [left  |-> IF o = "write_left" THEN Some(a)
               ELSE IF o \in ChangesLeft THEN None ELSE wr.left,
     right |-> IF o = "write_right" THEN Some(a)
               ELSE IF o \in ChangesRight THEN None ELSE wr.right]

\* A run: consecutive pushes on one side, then consecutive pops on that side,
\* no more pops than pushes.  base is the side's contents before the run.
NoRun == [side |-> "none", base |-> <<>>, pushed |-> <<>>, popped |-> <<>>]

SideOf(o) ==
    IF o \in {"push_left", "pop_left"} THEN "left"
    ELSE IF o \in {"push_right", "pop_right"} THEN "right"
    ELSE "none"

RunAfter(o, a, r) ==
    IF o \in {"push_left", "push_right"}
    THEN IF run.side = SideOf(o) /\ run.popped = <<>>
         THEN [run EXCEPT !.pushed = Append(@, a)]
         ELSE [side   |-> SideOf(o),
               base   |-> Chain(heap, IF SideOf(o) = "left" THEN left ELSE right),
               pushed |-> <<a>>,
               popped |-> <<>>]
    ELSE IF o \in {"pop_left", "pop_right"}
              /\ run.side = SideOf(o) /\ Len(run.popped) < Len(run.pushed)
    THEN [run EXCEPT !.popped = Append(@, r)]
    ELSE NoRun

\* The pushes minus the pops that returned Some, after operation o returned r.
NetAfter(o, r) ==
    IF o \in {"push_left", "push_right"} THEN net + 1
    ELSE IF o \in {"pop_left", "pop_right"} /\ r # None THEN net - 1
    ELSE net

\* A loop "while list.go_left() {}" (or go_right): consecutive calls of one
\* go_* operation up to and including the first that returns false.  from
\* and to are the sizes of the source and the destination side when the
\* loop started, trues counts the calls that found a Node to move, over
\* tells that a call found none.
NoStreak == [op |-> "none", from |-> 0, to |-> 0, trues |-> 0, over |-> FALSE]

StreakAfter(o) ==
    IF o \notin {"go_left", "go_right"} THEN NoStreak
    ELSE LET l == Len(ChainNodes(heap, left))
             rt == Len(ChainNodes(heap, right))
             s == IF streak.op = o /\ ~streak.over
                  THEN streak
                  ELSE [op    |-> o,
                        from  |-> IF o = "go_left" THEN l ELSE rt,
                        to    |-> IF o = "go_left" THEN rt ELSE l,
                        trues |-> 0,
                        over  |-> FALSE]
         IN  IF (IF o = "go_left" THEN left ELSE right) = Nil
             THEN [s EXCEPT !.over = TRUE]
             ELSE [s EXCEPT !.trues = @ + 1]

----------------------------------------------------------------------------
(* silly2: List<'a, T>, a list borrowed from the stack frames of nested
   List::push calls.  A reference to a List is the index of its frame. *)

\* let list = List { data, prev };
List_cons(data, prev) == [data |-> data, prev |-> prev]

\* List::push up to the call of the callback: the List lives in a new frame.
List_push(fr, prev, data) == Append(fr, List_cons(data, prev))

\* List::push from the return of the callback: callback(&list) is the tail
\* expression, so its value is the value of push, and the frame is left.
List_push_returns(fr, u) == [frames |-> SubSeq(fr, 1, Len(fr) - 1), ret |-> u]

\* list.iter() on the List in frame i.
List_iter(i) == [next |-> Some(i)]

\* Iterator::next.  The item is a reference to the data of a List: the index
\* of the frame that holds it.
\* Mutant: self.next is taken and not set to node.prev.
Iter_next_once(fr, it) ==
    IF it.next = None
    THEN [it |-> it, item |-> None]
    ELSE [it |-> [next |-> None], item |-> Some(it.next[1])]

Iter_next(fr, it) ==
    IF it.next = None
    THEN [it |-> it, item |-> None]
    ELSE LET nd == it.next[1]
         IN  [it |-> [next |-> fr[nd].prev], item |-> Some(nd)]

\* *item, for an item that is Some.
Data(fr, item) == fr[item[1]].data

NoVals == [next |-> None]
NoValsOn == [list |-> 0, depth |-> 0]
NoArg == [prev |-> None, data |-> 0]
NoRet == [callback |-> None, push |-> None]

NoBack == [set |-> FALSE, heap |-> <<>>, left |-> Nil, right |-> Nil]

BackAfter(o) ==
    IF \/ (o = "go_right" /\ op = "go_left" /\ ret = TRUE)
       \/ (o = "go_left" /\ op = "go_right" /\ ret = TRUE)
    THEN [set |-> TRUE, heap |-> pre.heap, left |-> pre.left, right |-> pre.right]
    ELSE NoBack

Init ==
    /\ heap = List_new.heap
    /\ left = List_new.left
    /\ right = List_new.right
    /\ pc = "idle"
    /\ node = Nil
    /\ cur_link = Nil
    /\ op = "new"
    /\ arg = Unit
    /\ ret = Unit
    /\ pre = NoPre
    /\ wr = NoWr
    /\ iters = [left |-> 0, right |-> 0]
    /\ released = <<>>
    /\ depth = 0
    /\ run = NoRun
    /\ net = 0
    /\ streak = NoStreak
    /\ back = NoBack
    /\ frames = <<>>
    /\ vals = NoVals
    /\ vals_on = NoValsOn
    /\ yielded = <<>>
    /\ cop = "none"
    /\ carg = NoArg
    /\ cret = NoRet

\* The history of a call of operation o with argument a returning r.
Called(o, a, r) ==
    /\ op' = o
    /\ arg' = a
    /\ ret' = r
    /\ pre' = [heap |-> heap, left |-> left, right |-> right,
               wr |-> IF o \in {"pop_left", "pop_right"} THEN wr ELSE NoWr]
    /\ wr' = WrAfter(o, a)
    /\ run' = RunAfter(o, a, r)
    /\ net' = NetAfter(o, r)
    /\ streak' = StreakAfter(o)
    /\ back' = BackAfter(o)

\* The List becomes st.
Becomes(st) == heap' = st.heap /\ left' = st.left /\ right' = st.right

NoTeardown == UNCHANGED <<cur_link, iters, released, depth>>

\* A step of the two-stack List touches nothing of the borrowed list.
NoCons == UNCHANGED cons_vars

----------------------------------------------------------------------------
(* Operations *)

\* Box::new may return any address that is not in use.
PushLeft(e, n) ==
    /\ pc = "idle"
    /\ n \notin DOMAIN heap
    /\ Becomes(push_left(St, e, n))
    /\ Called("push_left", e, Unit)
    /\ UNCHANGED <<pc, node>> /\ NoTeardown /\ NoCons

PushRight(e, n) ==
    /\ pc = "idle"
    /\ n \notin DOMAIN heap
    /\ Becomes(push_right(St, e, n))
    /\ Called("push_right", e, Unit)
    /\ UNCHANGED <<pc, node>> /\ NoTeardown /\ NoCons

\* Mutant: pop_left unwraps the head, so it cannot return on an empty side.
PopLeftReturns_unwraps(r) ==
    /\ pc = "idle"
    /\ r.ret # None
    /\ Becomes(r.st) /\ Called("pop_left", Unit, r.ret)
    /\ UNCHANGED <<pc, node>> /\ NoTeardown /\ NoCons

\* pop_left, r being the List it leaves and the value it returns.
PopLeftReturns(r) ==
    /\ pc = "idle"
    /\ Becomes(r.st) /\ Called("pop_left", Unit, r.ret)
    /\ UNCHANGED <<pc, node>> /\ NoTeardown /\ NoCons

PopLeft == PopLeftReturns(pop_left(St))

PopRightReturns(r) ==
    /\ pc = "idle"
    /\ Becomes(r.st) /\ Called("pop_right", Unit, r.ret)
    /\ UNCHANGED <<pc, node>> /\ NoTeardown /\ NoCons

PopRight == PopRightReturns(pop_right(St))

PeekLeft ==
    /\ pc = "idle"
    /\ Called("peek_left", Unit, peek_left(St))
    /\ UNCHANGED <<heap, left, right, pc, node>> /\ NoTeardown /\ NoCons

PeekRight ==
    /\ pc = "idle"
    /\ Called("peek_right", Unit, peek_right(St))
    /\ UNCHANGED <<heap, left, right, pc, node>> /\ NoTeardown /\ NoCons

\* The value behind the reference peek_mut returned.
Deref(h, place) == IF place = None THEN None ELSE Some(h[place[1]].elem)

\* peek_left_mut, the caller leaving the element as it is.
PeekLeftMut ==
    /\ pc = "idle"
    /\ Called("peek_left_mut", Unit, Deref(heap, peek_left_mut(St)))
    /\ UNCHANGED <<heap, left, right, pc, node>> /\ NoTeardown /\ NoCons

PeekRightMut ==
    /\ pc = "idle"
    /\ Called("peek_right_mut", Unit, Deref(heap, peek_right_mut(St)))
    /\ UNCHANGED <<heap, left, right, pc, node>> /\ NoTeardown /\ NoCons

\* peek_left_mut returning Some(reference), the caller then assigning v
\* through the reference.
WriteLeft(v) ==
    /\ pc = "idle"
    /\ peek_left_mut(St) # None
    /\ heap' = write(heap, peek_left_mut(St), v)
    /\ Called("write_left", v, Unit)
    /\ UNCHANGED <<left, right, pc, node>> /\ NoTeardown /\ NoCons

WriteRight(v) ==
    /\ pc = "idle"
    /\ peek_right_mut(St) # None
    /\ heap' = write(heap, peek_right_mut(St), v)
    /\ Called("write_right", v, Unit)
    /\ UNCHANGED <<left, right, pc, node>> /\ NoTeardown /\ NoCons

\* go_left, first half: self.left.pop_node().  On None the closure is not
\* called and go_left returns at once.
GoLeftPopNode ==
    /\ pc = "idle"
    /\ LET r == pop_node(heap, left)
       IN  /\ heap' = r.heap /\ left' = r.head /\ node' = r.node
           /\ pc' = IF r.node = Nil THEN "idle" ELSE "go_left"
           /\ Called("go_left", Unit,
                     IF r.node = Nil THEN is_some(r.node) ELSE "pending")
    /\ UNCHANGED right /\ NoTeardown /\ NoCons

\* go_left, second half: the closure, self.right.push_node(node), and the
\* return of is_some().
\* Mutant: the closure drops the Node instead of pushing it on right.
GoLeftPushNode_drops ==
    /\ pc = "go_left"
    /\ heap' = drop_glue(heap, node).heap
    /\ node' = Nil /\ pc' = "idle" /\ ret' = is_some(node)
    /\ UNCHANGED <<left, right, op, arg, pre, wr, run, net, streak, back>>
    /\ NoTeardown /\ NoCons

GoLeftPushNode ==
    /\ pc = "go_left"
    /\ LET r == push_node(heap, right, node)
       IN  heap' = r.heap /\ right' = r.head
    /\ node' = Nil /\ pc' = "idle" /\ ret' = is_some(node)
    /\ UNCHANGED <<left, op, arg, pre, wr, run, net, streak, back>>
    /\ NoTeardown /\ NoCons

\* Mutant: go_right takes its Node from left.
GoRightPopNode_of_left ==
    /\ pc = "idle"
    /\ LET r == pop_node(heap, left)
       IN  /\ heap' = r.heap /\ left' = r.head /\ node' = r.node
           /\ pc' = IF r.node = Nil THEN "idle" ELSE "go_right"
           /\ Called("go_right", Unit,
                     IF r.node = Nil THEN is_some(r.node) ELSE "pending")
    /\ UNCHANGED right /\ NoTeardown /\ NoCons

GoRightPopNode ==
    /\ pc = "idle"
    /\ LET r == pop_node(heap, right)
       IN  /\ heap' = r.heap /\ right' = r.head /\ node' = r.node
           /\ pc' = IF r.node = Nil THEN "idle" ELSE "go_right"
           /\ Called("go_right", Unit,
                     IF r.node = Nil THEN is_some(r.node) ELSE "pending")
    /\ UNCHANGED left /\ NoTeardown /\ NoCons

GoRightPushNode ==
    /\ pc = "go_right"
    /\ LET r == push_node(heap, left, node)
       IN  heap' = r.heap /\ left' = r.head
    /\ node' = Nil /\ pc' = "idle" /\ ret' = is_some(node)
    /\ UNCHANGED <<right, op, arg, pre, wr, run, net, streak, back>>
    /\ NoTeardown /\ NoCons

\* Dropping the List drops its fields in declaration order: left, then
\* right.  Stack::drop of left starts with cur_link = self.head.take().
DropList ==
    /\ pc = "idle"
    /\ pc' = "drop_left"
    /\ cur_link' = left /\ left' = Nil
    /\ Called("drop", Unit, Unit)
    /\ UNCHANGED <<heap, right, node, iters, released, depth>> /\ NoCons

\* while let Some(mut boxed_node) = cur_link { cur_link = boxed_node.next.take(); }
DropLoop ==
    /\ pc \in {"drop_left", "drop_right"}
    /\ cur_link # Nil
    /\ LET r == drop_iter(heap, cur_link)
       IN  /\ heap' = r.heap /\ cur_link' = r.cur_link
           /\ released' = released \o r.freed
           /\ depth' = IF r.depth > depth THEN r.depth ELSE depth
    /\ iters' = IF pc = "drop_left"
                THEN [iters EXCEPT !.left = @ + 1]
                ELSE [iters EXCEPT !.right = @ + 1]
    /\ UNCHANGED <<left, right, pc, node, call, wr, run, net, streak, back>>
    /\ NoCons

\* Stack::drop of left is over; Stack::drop of right starts.
DropLeftDone ==
    /\ pc = "drop_left"
    /\ cur_link = Nil
    /\ pc' = "drop_right"
    /\ cur_link' = right /\ right' = Nil
    /\ UNCHANGED <<heap, left, node, call, wr, run, net, streak, back,
                   iters, released, depth>>
    /\ NoCons

DropRightDone ==
    /\ pc = "drop_right"
    /\ cur_link = Nil
    /\ pc' = "dropped"
    /\ UNCHANGED <<heap, left, right, node, cur_link, call, wr, run, net,
                   streak, back, iters, released, depth>>
    /\ NoCons

Next ==
    \/ \E e \in Elems, n \in Nodes : PushLeft(e, n)
    \/ \E e \in Elems, n \in Nodes : PushRight(e, n)
    \/ PopLeft
    \/ PopRight
    \/ PeekLeft
    \/ PeekRight
    \/ PeekLeftMut
    \/ PeekRightMut
    \/ \E v \in Elems : WriteLeft(v)
    \/ \E v \in Elems : WriteRight(v)
    \/ GoLeftPopNode
    \/ GoLeftPushNode
    \/ GoRightPopNode
    \/ GoRightPushNode
    \/ DropList
    \/ DropLoop
    \/ DropLeftDone
    \/ DropRightDone

Spec == Init /\ [][Next]_vars

----------------------------------------------------------------------------
(* silly2: operations *)

\* A step of the borrowed list touches nothing of the two-stack List.
NoList == UNCHANGED list_vars

\* List::push(prev, data, callback) is called, from the test or from the
\* innermost callback, with a reference to a list in scope or None; it runs
\* up to the call of its callback.
ConsPush(p, d) ==
    /\ Len(frames) < MaxDepth
    /\ frames' = List_push(frames, p, d)
    /\ cop' = "push"
    /\ carg' = [prev |-> p, data |-> d]
    /\ cret' = NoRet
    /\ UNCHANGED <<vals, vals_on, yielded>> /\ NoList

\* let mut vals = list.iter(), in the innermost callback, on a list in scope.
ConsIter(i) ==
    /\ i \in 1..Len(frames)
    /\ vals' = List_iter(i)
    /\ vals_on' = [list |-> i, depth |-> Len(frames)]
    /\ yielded' = <<>>
    /\ cop' = "iter"
    /\ UNCHANGED <<frames, carg, cret>> /\ NoList

\* vals.next()
ConsIterNext ==
    /\ vals_on.depth # 0
    /\ Len(yielded) < MaxDepth + MaxExtra
    /\ LET r == Iter_next(frames, vals)
       IN  vals' = r.it /\ yielded' = Append(yielded, r.item)
    /\ cop' = "next"
    /\ UNCHANGED <<frames, vals_on, carg, cret>> /\ NoList

\* The innermost callback returns u and its List::push returns.  An Iter made
\* in that callback borrows a list that may not outlive the call: it is gone.
ConsReturn(u) ==
    /\ frames # <<>>
    /\ LET r == List_push_returns(frames, u)
       IN  /\ frames' = r.frames
           /\ cret' = [callback |-> Some(u), push |-> Some(r.ret)]
    /\ IF vals_on.depth >= Len(frames)
       THEN vals' = NoVals /\ vals_on' = NoValsOn /\ yielded' = <<>>
       ELSE UNCHANGED <<vals, vals_on, yielded>>
    /\ cop' = "return"
    /\ carg' = NoArg
    /\ NoList

ConsNext ==
    \/ \E p \in {None} \cup {Some(i) : i \in 1..Len(frames)}, d \in Elems :
           ConsPush(p, d)
    \/ \E i \in 1..MaxDepth : ConsIter(i)
    \/ ConsIterNext
    \/ \E u \in Elems : ConsReturn(u)

SpecCons == Init /\ [][ConsNext]_vars

----------------------------------------------------------------------------
(* Properties *)

CurL == Chain(heap, left)
CurR == Chain(heap, right)
PreL == Chain(pre.heap, pre.left)
PreR == Chain(pre.heap, pre.right)

\* The logical sequence of a List: left reversed, then right.
Logical(h, l, r) == Reverse(Chain(h, l)) \o Chain(h, r)

\* Operation o was called last and has returned.
Returned(o) == pc = "idle" /\ op = o

\* C1 (LIFO): in a run of k push_left calls followed immediately by pop_left
\* calls, the i-th pop returns Some of the element pushed i-th from last, the
\* stack holds in between the elements not yet popped on top of what it held
\* before the run, and after the k-th pop it is what it was before the run;
\* the same for push_right / pop_right.
LIFO ==
    run.side # "none" =>
        LET k   == Len(run.pushed)
            j   == Len(run.popped)
            cur == IF run.side = "left" THEN CurL ELSE CurR
        IN  /\ \A i \in 1..j : run.popped[i] = Some(run.pushed[k + 1 - i])
            /\ cur = Reverse(SubSeq(run.pushed, 1, k - j)) \o run.base
            /\ j = k => cur = run.base

\* A run of three pushes of differing elements on left, all popped again.
LIFOWitness ==
    /\ run.side = "left"
    /\ Len(run.pushed) = MaxNodes
    /\ Len(run.popped) = Len(run.pushed)
    /\ run.pushed[1] # run.pushed[2]

\* C2 (logical sequence): a call of go_left or go_right, whatever it returns,
\* leaves the logical sequence reverse(left) \o right unchanged; returning
\* true it changes (size of left, size of right) by (-1, +1) for go_left and
\* by (+1, -1) for go_right, returning false it leaves the sizes unchanged.
LogicalSequenceKept ==
    (pc = "idle" /\ op \in {"go_left", "go_right"}) =>
        /\ Logical(heap, left, right) = Logical(pre.heap, pre.left, pre.right)
        /\ (ret = TRUE /\ op = "go_left") =>
               Len(CurL) = Len(PreL) - 1 /\ Len(CurR) = Len(PreR) + 1
        /\ (ret = TRUE /\ op = "go_right") =>
               Len(CurL) = Len(PreL) + 1 /\ Len(CurR) = Len(PreR) - 1
        /\ ret = FALSE => Len(CurL) = Len(PreL) /\ Len(CurR) = Len(PreR)

\* go_left has moved the cursor inside a sequence of three elements.
LogicalSequenceWitness ==
    /\ Returned("go_left") /\ ret = TRUE
    /\ Len(CurL) >= 1 /\ Len(CurR) >= 2
    /\ CurR[1] # CurR[2]

\* C3 (transfer): go_left called with left non-empty returns true; afterwards
\* peek_right is what peek_left was, right is that element on top of its
\* previous contents, and left is its previous contents without its head.
\* Symmetrically for go_right.
TransferCorrect ==
    /\ (Returned("go_left") /\ pre.left # Nil) =>
           /\ ret = TRUE
           /\ peek_right(St) = peek(pre.heap, pre.left)
           /\ CurR = <<Head(PreL)>> \o PreR
           /\ CurL = Tail(PreL)
    /\ (Returned("go_right") /\ pre.right # Nil) =>
           /\ ret = TRUE
           /\ peek_left(St) = peek(pre.heap, pre.right)
           /\ CurL = <<Head(PreR)>> \o PreL
           /\ CurR = Tail(PreR)

\* go_left has put an element on top of a right stack of two.
TransferWitness ==
    /\ Returned("go_left") /\ pre.left # Nil
    /\ Len(PreR) = 2
    /\ Head(PreL) # Head(PreR)

\* C4 (no-op boundary): go_left called with left empty returns false and
\* leaves the heap and both stacks exactly as they were; so does go_right
\* called with right empty.
NoOpBoundary ==
    /\ (Returned("go_left") /\ pre.left = Nil) =>
           ret = FALSE /\ St = [heap |-> pre.heap, left |-> pre.left, right |-> pre.right]
    /\ (Returned("go_right") /\ pre.right = Nil) =>
           ret = FALSE /\ St = [heap |-> pre.heap, left |-> pre.left, right |-> pre.right]

\* go_left was called at the leftmost position of a non-empty List.
NoOpBoundaryWitness ==
    /\ Returned("go_left") /\ pre.left = Nil
    /\ Len(CurR) >= 2

PreSt == [heap |-> pre.heap, left |-> pre.left, right |-> pre.right]

\* How many links own Node n: the stacks' heads, the Node in transit, and
\* the next links of the live Nodes.
Owners(n) ==
    (IF left = n THEN 1 ELSE 0) + (IF right = n THEN 1 ELSE 0)
    + (IF node = n THEN 1 ELSE 0)
    + Cardinality({m \in DOMAIN heap : heap[m].next = n})

LinkTargets ==
    {left, right, node} \cup {heap[m].next : m \in DOMAIN heap}

\* C5 (exclusive ownership): in every state of the List outside teardown,
\* the state inside go_left / go_right between pop_node and push_node
\* included, every live Node is owned by exactly one link (a stack's head, a
\* Node's next, or the Node in transit) and every link leads to a live Node;
\* no Node is reached from both left and right; the Node in transit is in
\* neither stack; and after a move the source stack no longer holds the
\* moved Node, which is the very Node now at the head of the other stack.
ExclusiveOwnership ==
    pc \in {"idle", "go_left", "go_right"} =>
        /\ \A n \in DOMAIN heap : Owners(n) = 1
        /\ LinkTargets \subseteq DOMAIN heap \cup {Nil}
        /\ Range(ChainNodes(heap, left)) \cap Range(ChainNodes(heap, right)) = {}
        /\ pc \in {"go_left", "go_right"} =>
               /\ node \in DOMAIN heap
               /\ node = (IF pc = "go_left" THEN pre.left ELSE pre.right)
               /\ node \notin Range(ChainNodes(heap, left))
               /\ node \notin Range(ChainNodes(heap, right))
        /\ (Returned("go_left") /\ ret = TRUE) =>
               right = pre.left /\ pre.left \notin Range(ChainNodes(heap, left))
        /\ (Returned("go_right") /\ ret = TRUE) =>
               left = pre.right /\ pre.right \notin Range(ChainNodes(heap, right))

\* A Node is in transit from a left stack that keeps a Node to a non-empty
\* right stack.
ExclusiveOwnershipWitness ==
    pc = "go_left" /\ left # Nil /\ right # Nil

\* C6 (empty side): pop_left, peek_left and peek_left_mut called with left
\* empty return None and leave the heap and both stacks as they were,
\* whatever right holds; symmetrically for the right side.
EmptySideNone ==
    /\ (pc = "idle" /\ op \in {"pop_left", "peek_left", "peek_left_mut"}
            /\ pre.left = Nil) =>
           ret = None /\ St = PreSt
    /\ (pc = "idle" /\ op \in {"pop_right", "peek_right", "peek_right_mut"}
            /\ pre.right = Nil) =>
           ret = None /\ St = PreSt

\* pop_left was called with left empty and right holding two elements.
EmptySideWitness ==
    Returned("pop_left") /\ pre.left = Nil /\ Len(PreR) >= 2

\* C7 (mutation visibility): a pop_left called while the value v written
\* last through peek_left_mut is pending (no call has changed left since)
\* returns Some(v); the write replaces the head element of left by v and
\* changes no other element, no link and nothing of right.  Symmetrically
\* for peek_right_mut / pop_right.
MutationVisible ==
    /\ (Returned("pop_left") /\ pre.wr.left # None) => ret = pre.wr.left
    /\ (Returned("pop_right") /\ pre.wr.right # None) => ret = pre.wr.right
    /\ Returned("write_left") =>
           /\ CurL = <<arg>> \o Tail(PreL) /\ CurR = PreR
           /\ ChainNodes(heap, left) = ChainNodes(pre.heap, pre.left)
           /\ ChainNodes(heap, right) = ChainNodes(pre.heap, pre.right)
    /\ Returned("write_right") =>
           /\ CurR = <<arg>> \o Tail(PreR) /\ CurL = PreL
           /\ ChainNodes(heap, left) = ChainNodes(pre.heap, pre.left)
           /\ ChainNodes(heap, right) = ChainNodes(pre.heap, pre.right)

\* pop_left has returned the value written to the head of a left stack of
\* two or more, a write through peek_right_mut being pending as well.
MutationVisibleWitness ==
    /\ Returned("pop_left") /\ pre.wr.left = Some(1)
    /\ pre.wr.right # None
    /\ Len(PreL) >= 2

\* The sizes of the two stacks: the cursor position.
Sizes(st) ==
    <<Len(ChainNodes(st.heap, st.left)), Len(ChainNodes(st.heap, st.right))>>

\* The List states reached from those of S by go_left and go_right calls.
RECURSIVE Reach(_)
Reach(S) ==
    LET T == S \cup {go_left(s).st : s \in S} \cup {go_right(s).st : s \in S}
    IN  IF T = S THEN S ELSE Reach(T)

\* C8 (cursor reachability): whenever a go_left or go_right call has
\* returned, with N elements in the List, the states reachable from the
\* current one by go_left / go_right calls are N+1 states, their cursor
\* positions are exactly the pairs (k, N-k) for k in 0..N, and from each of
\* them the same N+1 states are reachable.  (The call that has returned did
\* what the function go_left / go_right computes.)
CursorReachability ==
    (pc = "idle" /\ op \in {"go_left", "go_right"}) =>
        LET N == Sizes(St)[1] + Sizes(St)[2]
            R == Reach({St})
            g == IF op = "go_left" THEN go_left(PreSt) ELSE go_right(PreSt)
        IN  /\ St = g.st /\ ret = g.ret
            /\ {Sizes(s) : s \in R} = {<<k, N - k>> : k \in 0..N}
            /\ Cardinality(R) = N + 1
            /\ \A s \in R : Reach({s}) = R

\* The cursor has moved right inside a List of three elements.
CursorReachabilityWitness ==
    /\ Returned("go_right") /\ ret = TRUE
    /\ Sizes(St) = <<2, 1>>

PreLN == ChainNodes(pre.heap, pre.left)
PreRN == ChainNodes(pre.heap, pre.right)

\* C9 (iterative teardown): Stack::drop of a chain of n Nodes ends after
\* exactly n loop iterations (iterations done plus Nodes still chained is n
\* throughout); the Nodes are released one per iteration, each once, in
\* chain order, each with its next link already detached, so that no release
\* nests inside another (depth at most 1); dropping the List tears down left
\* and then right this way and leaves no Node.
IterativeTeardown ==
    /\ depth <= 1
    /\ pc = "idle" => iters = [left |-> 0, right |-> 0] /\ released = <<>>
    /\ pc \in {"drop_left", "drop_right", "dropped"} =>
           /\ released = SubSeq(PreLN \o PreRN, 1, iters.left + iters.right)
           /\ DOMAIN heap = DOMAIN pre.heap \ Range(released)
           /\ Cardinality(Range(released)) = Len(released)
    /\ pc = "drop_left" =>
           /\ iters.left + Len(ChainNodes(heap, cur_link)) = Len(PreLN)
           /\ iters.right = 0
    /\ pc = "drop_right" =>
           /\ iters.left = Len(PreLN)
           /\ iters.right + Len(ChainNodes(heap, cur_link)) = Len(PreRN)
    /\ pc = "dropped" =>
           /\ iters = [left |-> Len(PreLN), right |-> Len(PreRN)]
           /\ released = PreLN \o PreRN
           /\ DOMAIN heap = {}

\* A List with two Nodes on the left and one on the right has been torn down.
IterativeTeardownWitness ==
    /\ pc = "dropped"
    /\ iters.left >= 2 /\ iters.right >= 1
    /\ depth = 1

\* An address Box::new can return: one that is not in use.
Fresh(h) == CHOOSE n \in 1..(Cardinality(DOMAIN h) + 1) : n \notin DOMAIN h

\* while list.go_left() {}
RECURSIVE walk_left(_)
walk_left(st) ==
    LET r == go_left(st) IN IF r.ret THEN walk_left(r.st) ELSE r.st

\* What successive pop_right calls return, the first None included.
RECURSIVE drain_right(_)
drain_right(st) ==
    LET r == pop_right(st)
    IN  <<r.ret>> \o (IF r.ret = None THEN <<>> ELSE drain_right(r.st))

\* The calls of test::walk_aboot, and what the test asserts of their results.
walk_aboot ==
    << <<"push_left", 0>>, <<"push_right", 1>>,
       <<"peek_left">>, <<"peek_right">>,
       <<"push_left", 2>>, <<"push_left", 3>>, <<"push_right", 4>>,
       <<"walk_left">>,
       <<"pop_left">>, <<"pop_right">>, <<"pop_right">>,
       <<"push_left", 5>>,
       <<"pop_right">>, <<"pop_left">>, <<"pop_right">>, <<"pop_right">>,
       <<"pop_right">>, <<"pop_left">> >>

walk_aboot_asserted ==
    << Unit, Unit,
       Some(0), Some(1),
       Unit, Unit, Unit,
       Unit,
       None, Some(0), Some(2),
       Unit,
       Some(3), Some(5), Some(4), Some(1),
       None, None >>

\* One call c on the List st: the List after it and what the call returned.
Exec(st, c) ==
    CASE c[1] = "push_left"  -> [st |-> push_left(st, c[2], Fresh(st.heap)), ret |-> Unit]
      [] c[1] = "push_right" -> [st |-> push_right(st, c[2], Fresh(st.heap)), ret |-> Unit]
      [] c[1] = "pop_left"   -> pop_left(st)
      [] c[1] = "pop_right"  -> pop_right(st)
      [] c[1] = "peek_left"  -> [st |-> st, ret |-> peek_left(st)]
      [] c[1] = "peek_right" -> [st |-> st, ret |-> peek_right(st)]
      [] c[1] = "walk_left"  -> [st |-> walk_left(st), ret |-> Unit]

\* The results of the calls cs made in order on the List st.
RECURSIVE Results(_, _)
Results(st, cs) ==
    IF cs = <<>> THEN <<>>
    ELSE LET r == Exec(st, Head(cs)) IN <<r.ret>> \o Results(r.st, Tail(cs))

\* The List after the calls cs.
RECURSIVE After(_, _)
After(st, cs) ==
    IF cs = <<>> THEN st ELSE After(Exec(st, Head(cs)).st, Tail(cs))

\* test::walk_aboot on a new List: every call returns what the test asserts,
\* and the List holds [_, 0, 2, 3, 4, 1] after the walk.
walk_aboot_passes ==
    /\ Results(List_new, walk_aboot) = walk_aboot_asserted
    /\ LET a == After(List_new, SubSeq(walk_aboot, 1, 8))
       IN  a.left = Nil /\ Chain(a.heap, a.right) = <<0, 2, 3, 4, 1>>

\* C10 (walk to the left end, then drain): from every state of the List,
\* with logical sequence s, go_left repeated until it returns false leaves
\* left empty (pop_left returns None) and right holding s, and successive
\* pop_right calls then return Some of each element of s in order, then
\* None; a go_left call that has returned false has left the List in that
\* state; and the calls of walk_aboot, made on a new List, return what the
\* test asserts, the List holding [_, 0, 2, 3, 4, 1] after the walk.
WalkThenDrain ==
    /\ pc = "idle" =>
           LET s == Logical(heap, left, right)
               w == walk_left(St)
           IN  /\ w.left = Nil
               /\ pop_left(w).ret = None
               /\ Chain(w.heap, w.right) = s
               /\ drain_right(w) = [i \in 1..Len(s) |-> Some(s[i])] \o <<None>>
    /\ (Returned("go_left") /\ ret = FALSE) => St = walk_left(PreSt)
    /\ walk_aboot_passes

\* The walk has ended (go_left has returned false) on a List that holds
\* three elements, all of them now on the right.
WalkThenDrainWitness ==
    /\ Returned("go_left") /\ ret = FALSE
    /\ Len(CurR) = MaxNodes
    /\ CurR[1] # CurR[2]

\* C11 (side independence): push_left, pop_left and a write through
\* peek_left_mut leave the right stack (its head, its Nodes, its elements)
\* as it was, and push_left returns with the pushed element at the head of
\* left and the previous contents of left below it; symmetrically
\* push_right, pop_right and a write through peek_right_mut leave the left
\* stack as it was.
SideIndependence ==
    /\ (pc = "idle" /\ op \in {"push_left", "pop_left", "write_left"}) =>
           /\ right = pre.right
           /\ ChainNodes(heap, right) = PreRN
           /\ CurR = PreR
    /\ (pc = "idle" /\ op \in {"push_right", "pop_right", "write_right"}) =>
           /\ left = pre.left
           /\ ChainNodes(heap, left) = PreLN
           /\ CurL = PreL
    /\ Returned("push_left") =>
           ret = Unit /\ CurL = <<arg>> \o PreL /\ Tail(ChainNodes(heap, left)) = PreLN
    /\ Returned("push_right") =>
           ret = Unit /\ CurR = <<arg>> \o PreR /\ Tail(ChainNodes(heap, right)) = PreRN

\* push_left has pushed onto a non-empty left stack, right holding an
\* element that differs from the pushed one.
SideIndependenceWitness ==
    /\ Returned("push_left")
    /\ Len(PreL) >= 1 /\ Len(PreR) >= 1
    /\ arg # Head(PreR)

\* The walk from a link along next visits no Node twice and ends in an
\* absent link (not in a released Node, and not by running out of steps).
EndsInNil(h, link) ==
    LET ns == ChainNodes(h, link)
    IN  /\ Cardinality(Range(ns)) = Len(ns)
        /\ IF ns = <<>> THEN link = Nil ELSE h[ns[Len(ns)]].next = Nil

\* C12 (acyclic chains): in every state, the walk along next from the head
\* of left, from the head of right, and from the Node in transit, visits no
\* Node twice and ends in an absent link, and the walks share no Node.
AcyclicChains ==
    /\ EndsInNil(heap, left)
    /\ EndsInNil(heap, right)
    /\ EndsInNil(heap, node)
    /\ Range(ChainNodes(heap, left)) \cap Range(ChainNodes(heap, right)) = {}
    /\ Range(ChainNodes(heap, node)) \cap
           (Range(ChainNodes(heap, left)) \cup Range(ChainNodes(heap, right))) = {}

\* go_right has pushed a Node onto a left stack of two, right keeping one.
AcyclicChainsWitness ==
    /\ Returned("go_right") /\ ret = TRUE
    /\ Len(CurL) >= 2 /\ Len(CurR) >= 1

OptionElem == {None} \cup {Some(e) : e \in Elems}

\* The values operation o may return.
ReturnType(o) ==
    IF o \in {"push_left", "push_right"} THEN {Unit}
    ELSE IF o \in {"go_left", "go_right"} THEN BOOLEAN
    ELSE OptionElem

ListOps ==
    {"push_left", "push_right", "pop_left", "pop_right", "peek_left",
     "peek_right", "peek_left_mut", "peek_right_mut", "go_left", "go_right"}

\* No operation is disabled and no call is stuck or has returned a value
\* outside its return type.
OperationsEnabled ==
    /\ pc = "idle" =>
           /\ Cardinality(DOMAIN heap) < MaxNodes =>
                  \A e \in Elems : \E n \in Nodes \ DOMAIN heap :
                      /\ ENABLED PushLeft(e, n)
                      /\ ENABLED PushRight(e, n)
           /\ \A r \in {pop_left(St)} : ENABLED PopLeftReturns(r)
           /\ \A r \in {pop_right(St)} : ENABLED PopRightReturns(r)
           /\ ENABLED PeekLeft
           /\ ENABLED PeekRight
           /\ ENABLED PeekLeftMut
           /\ ENABLED PeekRightMut
           /\ ENABLED GoLeftPopNode
           /\ ENABLED GoRightPopNode
    /\ pc = "go_left" => ENABLED GoLeftPushNode
    /\ pc = "go_right" => ENABLED GoRightPushNode
    /\ (pc = "idle" /\ op \in ListOps) => ret \in ReturnType(op)
    /\ (pc \in {"go_left", "go_right"}) => ret = "pending"

\* C13 (no terminal state): in every state reachable from List::new() in
\* which no call is under way and the List has not been dropped, each of the
\* ten operations can be called (a push for every element, as long as
\* Box::new has an address to give); a go_* call under way can complete; and
\* every call that has returned has returned a value of its return type.
NoTerminalState == []OperationsEnabled

\* pop_right has just returned None on a List whose both sides are empty:
\* the state with the fewest ways forward.
NoTerminalStateWitness ==
    /\ Returned("pop_right") /\ ret = None
    /\ left = Nil /\ right = Nil /\ pre.left = Nil

\* The element-level counterpart of go_left:
\*   x = pop_left(); if x is Some(e) { push_right(e); true } else { false }
\* (the popped Node is released and push_right allocates a new one).
go_left_by_elem(st) ==
    LET x == pop_left(st)
    IN  IF x.ret = None
        THEN [st |-> x.st, ret |-> FALSE]
        ELSE [st  |-> push_right(x.st, x.ret[1], Fresh(x.st.heap)),
              ret |-> TRUE]

go_right_by_elem(st) ==
    LET x == pop_right(st)
    IN  IF x.ret = None
        THEN [st |-> x.st, ret |-> FALSE]
        ELSE [st  |-> push_left(x.st, x.ret[1], Fresh(x.st.heap)),
              ret |-> TRUE]

\* The elements of both stacks of a List.
Contents(st) == <<Chain(st.heap, st.left), Chain(st.heap, st.right)>>

\* C14 (node-level transfer is element-level transfer): a go_left call
\* returns what the element-level sequence pop_left / push_right would have
\* returned on the state before the call and leaves both stacks with the
\* contents that sequence would have left; the same for go_right with
\* pop_right / push_left.  The difference is the Node: go_* reuses the Node
\* of the moved element (same set of live Nodes, the old head of the source
\* is the new head of the destination).
TransferEquivalent ==
    /\ Returned("go_left") =>
           /\ ret = go_left_by_elem(PreSt).ret
           /\ Contents(St) = Contents(go_left_by_elem(PreSt).st)
           /\ DOMAIN heap = DOMAIN pre.heap
           /\ ret = TRUE => right = pre.left
    /\ Returned("go_right") =>
           /\ ret = go_right_by_elem(PreSt).ret
           /\ Contents(St) = Contents(go_right_by_elem(PreSt).st)
           /\ DOMAIN heap = DOMAIN pre.heap
           /\ ret = TRUE => left = pre.right

\* go_left has moved an element between two non-empty sides.
TransferEquivalentWitness ==
    /\ Returned("go_left") /\ ret = TRUE
    /\ Len(PreL) >= 2 /\ Len(PreR) >= 1
    /\ Head(PreL) # Head(PreR)

\* The live Nodes.
Live(h) == DOMAIN h

\* C15 (node lifecycle and conservation): a push call creates exactly one
\* Node (the new head, an address not live before); a pop call that returns
\* Some destroys exactly one Node, the former head, and leaves the rest of
\* the chain; a pop returning None, a peek, a write and a go_* call (half-way
\* and returned) leave the set of live Nodes as it was; and until teardown
\* the live Nodes are those of the two chains (and the one in transit), their
\* number being the push calls made minus the pop calls that returned Some.
\* Teardown leaves no Node.
NodeConservation ==
    /\ Returned("push_left") =>
           left \notin Live(pre.heap) /\ Live(heap) = Live(pre.heap) \cup {left}
    /\ Returned("push_right") =>
           right \notin Live(pre.heap) /\ Live(heap) = Live(pre.heap) \cup {right}
    /\ (Returned("pop_left") /\ ret # None) =>
           /\ pre.left \in Live(pre.heap)
           /\ Live(heap) = Live(pre.heap) \ {pre.left}
           /\ ChainNodes(heap, left) = Tail(PreLN)
    /\ (Returned("pop_right") /\ ret # None) =>
           /\ pre.right \in Live(pre.heap)
           /\ Live(heap) = Live(pre.heap) \ {pre.right}
           /\ ChainNodes(heap, right) = Tail(PreRN)
    /\ (pc = "idle" /\ op \in {"pop_left", "pop_right"} /\ ret = None) =>
           Live(heap) = Live(pre.heap)
    /\ (pc = "idle" /\ op \in {"peek_left", "peek_right", "peek_left_mut",
                               "peek_right_mut", "write_left", "write_right"}) =>
           Live(heap) = Live(pre.heap)
    /\ op \in {"go_left", "go_right"} => Live(heap) = Live(pre.heap)
    /\ pc \in {"idle", "go_left", "go_right"} =>
           /\ Live(heap) = Range(ChainNodes(heap, left))
                               \cup Range(ChainNodes(heap, right))
                               \cup (IF node = Nil THEN {} ELSE {node})
           /\ Len(CurL) + Len(CurR) + (IF node = Nil THEN 0 ELSE 1) = net
           /\ Cardinality(Live(heap)) = net
    /\ pc = "dropped" => Live(heap) = {}

\* pop_left has returned Some from a chain of two with right not empty: one
\* Node gone, two still live.
NodeConservationWitness ==
    /\ Returned("pop_left") /\ ret # None
    /\ Len(PreL) >= 2 /\ Len(PreR) >= 1
    /\ net = 2

PeeksLeft == {"peek_left", "peek_left_mut"}
PeeksRight == {"peek_right", "peek_right_mut"}

\* A step of the List in which a peek call (peek_mut with no write included)
\* is made, or which follows the return of one.
PeekStep ==
    /\ (pc = "idle" /\ pc' = "idle" /\ op' \in PeeksLeft \cup PeeksRight) =>
           /\ heap' = heap /\ left' = left /\ right' = right
           /\ op' \in PeeksLeft => (ret' = None <=> left = Nil)
           /\ op' \in PeeksRight => (ret' = None <=> right = Nil)
    /\ (pc = "idle" /\ op \in PeeksLeft /\ op' \in PeeksLeft) => ret' = ret
    /\ (pc = "idle" /\ op \in PeeksRight /\ op' \in PeeksRight) => ret' = ret
    /\ (pc = "idle" /\ op \in PeeksLeft /\ ret # None /\ op' = "pop_left") =>
           ret' = ret
    /\ (pc = "idle" /\ op \in PeeksRight /\ ret # None /\ op' = "pop_right") =>
           ret' = ret

\* C16 (peek is read-only and agrees with pop): a peek_left, peek_right,
\* peek_left_mut or peek_right_mut call with no write through the reference
\* changes neither stack; it returns None exactly on an empty side; a peek
\* on the same side called right after it returns the same; and when it
\* returned Some, a pop on that side called right after it returns the same
\* element.
PeekReadOnly == [][PeekStep]_vars

\* peek_left has returned the head of a left stack of two different elements.
PeekReadOnlyWitness ==
    /\ Returned("peek_left") /\ ret # None
    /\ Len(CurL) >= 2 /\ CurL[1] # CurL[2]
    /\ right # Nil

\* C17 (the walk loop terminates): in a loop of go_left calls started with k
\* Nodes on left, every call that found a Node has returned true and moved it
\* (left holds k minus the calls made, right its size at the start plus the
\* calls made), there are never more than k of them, and the call that
\* returns false is the one made after exactly k: it leaves left empty and
\* right k larger than at the start.  The same for go_right, mirrored.
WalkLoopTerminates ==
    streak.op # "none" =>
        LET src == IF streak.op = "go_left" THEN left ELSE right
            dst == IF streak.op = "go_left" THEN right ELSE left
            moved == streak.trues - (IF node = Nil THEN 0 ELSE 1)
        IN  /\ op = streak.op
            /\ streak.trues <= streak.from
            /\ Len(ChainNodes(heap, src)) = streak.from - streak.trues
            /\ Len(ChainNodes(heap, dst)) = streak.to + moved
            /\ (pc = "idle" /\ ~streak.over) => (ret = TRUE /\ streak.trues >= 1)
            /\ streak.over =>
                   /\ ret = FALSE
                   /\ streak.trues = streak.from
                   /\ src = Nil
                   /\ Len(ChainNodes(heap, dst)) = streak.to + streak.from

\* A loop of go_left calls over a left stack of two, right not empty, has
\* ended with the call that returned false.
WalkLoopTerminatesWitness ==
    /\ Returned("go_left") /\ ret = FALSE
    /\ streak.op = "go_left" /\ streak.over
    /\ streak.from >= 2 /\ streak.to >= 1

\* C18 (go_left and go_right are mutual inverses): a go_right call made right
\* after a go_left call that returned true returns true as well and leaves
\* the List exactly as it was before the go_left call: the same Nodes with
\* the same elements and links under the same heads.  The same for a
\* go_left call made right after a go_right call that returned true.
GoInverse ==
    back.set =>
        /\ op \in {"go_left", "go_right"}
        /\ pc \in {"idle", op}
        /\ pc = "idle" =>
               /\ ret = TRUE
               /\ heap = back.heap /\ left = back.left /\ right = back.right

\* go_right has returned after a go_left that moved the head of a left
\* stack of two onto a non-empty right stack.
GoInverseWitness ==
    /\ Returned("go_right") /\ back.set
    /\ Len(CurL) >= 2 /\ Len(CurR) >= 1
    /\ CurL[1] # CurL[2]

----------------------------------------------------------------------------
(* silly2: properties *)

\* The lists met from a link by following prev, nearest first.
RECURSIVE PrevChain(_, _, _)
PrevChain(fr, link, fuel) ==
    IF link = None \/ fuel = 0
    THEN <<>>
    ELSE <<link[1]>> \o PrevChain(fr, fr[link[1]].prev, fuel - 1)

\* The lists 1..n were built by nested calls, each on top of the one before:
\* the outermost with prev = None.
Nested(fr, n) ==
    \A j \in 1..n : fr[j].prev = IF j = 1 THEN None ELSE Some(j - 1)

\* What the iterator yields until the first None: list.iter().copied()
RECURSIVE Copied(_, _)
Copied(fr, it) ==
    LET r == Iter_next(fr, it)
    IN  IF r.item = None THEN <<>> ELSE <<Data(fr, r.item)>> \o Copied(fr, r.it)

RECURSIVE Sum(_)
Sum(s) == IF s = <<>> THEN 0 ELSE Head(s) + Sum(Tail(s))

\* for val in list.iter() { val.set(val.get() * 10) }
RECURSIVE times_ten(_, _)
times_ten(fr, it) ==
    LET r == Iter_next(fr, it)
    IN  IF r.item = None
        THEN fr
        ELSE times_ten([fr EXCEPT ![r.item[1]].data = @ * 10], r.it)

\* What n successive next() calls (on Cells) return: vals.next().map(Cell::get)
RECURSIVE Nexts(_, _, _)
Nexts(fr, it, n) ==
    IF n = 0 THEN <<>>
    ELSE LET r == Iter_next(fr, it)
         IN  <<IF r.item = None THEN None ELSE Some(Data(fr, r.item))>>
                 \o Nexts(fr, r.it, n - 1)

\* The lists of both tests: 3, then 5 on top of it, then 13 on top of that.
test_lists ==
    List_push(List_push(List_push(<<>>, None, 3), Some(1), 5), Some(2), 13)

\* test::elegance: the sums asserted in the three callbacks.
elegance ==
    <<Sum(Copied(SubSeq(test_lists, 1, 1), List_iter(1))),
      Sum(Copied(SubSeq(test_lists, 1, 2), List_iter(2))),
      Sum(Copied(test_lists, List_iter(3)))>>

\* test::cell: the five values asserted after the multiplication.
cell == Nexts(times_ten(test_lists, List_iter(3)), List_iter(3), 5)

tests_pass ==
    /\ elegance = <<3, 5 + 3, 13 + 5 + 3>>
    /\ cell = <<Some(130), Some(50), Some(30), None, None>>

\* C19 (borrowed cons-list iteration): the next() calls on an iterator made
\* by iter() on a list return references to that list, to its prev, and so
\* on to the list whose prev is None, each once, and None from then on; for
\* lists d1 .. dn built by nested calls, iter() on dn yields dn, ..., d1 in
\* that order.  List::push hands its callback a list with the data and the
\* prev it was given, and returns what the callback returned.  Both tests
\* of silly2 pass.
ConsIteration ==
    /\ vals_on.depth # 0 =>
           LET n == vals_on.list
               exp == PrevChain(frames, Some(n), Len(frames))
           IN  /\ \A k \in 1..Len(yielded) :
                      yielded[k] = IF k <= Len(exp) THEN Some(exp[k]) ELSE None
               /\ Cardinality(Range(exp)) = Len(exp)
               /\ frames[exp[Len(exp)]].prev = None
               /\ Nested(frames, n) => exp = [k \in 1..n |-> n + 1 - k]
    /\ cop = "push" =>
           /\ frames # <<>>
           /\ frames[Len(frames)].data = carg.data
           /\ frames[Len(frames)].prev = carg.prev
    /\ cop = "return" => (cret.callback # None /\ cret.push = cret.callback)
    /\ tests_pass

\* Three nested lists whose data are not all alike; the iterator on the
\* innermost has yielded all three and has been called twice more.
ConsIterationWitness ==
    /\ Len(frames) = 3 /\ Nested(frames, 3)
    /\ frames[1].data # frames[2].data
    /\ vals_on.list = 3
    /\ Len(yielded) = 5
    /\ yielded[3] = Some(1) /\ yielded[5] = None

====
